---- MODULE Spec2Model ----
(***************************************************************************)
(* Model of the pricing and quota engine of the LLM cost calculator        *)
(* (src/js/calculator.js).  The engine computes on JavaScript Numbers, so  *)
(* the model carries IEEE-754 binary64 values: every *, / and + of the     *)
(* source is one correctly rounded (round-to-nearest, ties-to-even)        *)
(* operation here.  A finite non-negative Number is the record             *)
(*     [k |-> "num", m |-> mantissa, e |-> exponent]   value = m * 2^e     *)
(* with m an odd natural (or zero) of at most 53 bits, written as a        *)
(* little-endian sequence of 15-bit limbs, so that two Numbers are equal   *)
(* (=== in the source) exactly when their records are equal.  Infinity,    *)
(* NaN, null and undefined are records of the same shape with another k.   *)
(* The values the model reaches stay far inside the binary64 exponent      *)
(* range, so overflow to Infinity and subnormal results are not modelled.  *)
(***************************************************************************)
EXTENDS Integers, Sequences, FiniteSets, TLC

(***************************************************************************)
(* Naturals of arbitrary size: little-endian limbs, no leading zero limb.  *)
(***************************************************************************)
LimbBits == 15
LimbBase == 2^15

Limb(a, i) == IF i >= 1 /\ i <= Len(a) THEN a[i] ELSE 0

RECURSIVE BTrim(_)
BTrim(a) ==
  IF a = <<>> THEN a
  ELSE IF a[Len(a)] = 0 THEN BTrim(SubSeq(a, 1, Len(a) - 1)) ELSE a

RECURSIVE BFromInt(_)
BFromInt(n) ==
  IF n = 0 THEN <<>> ELSE <<n % LimbBase>> \o BFromInt(n \div LimbBase)

RECURSIVE BAddC(_, _, _, _)
BAddC(a, b, i, c) ==
  IF i > Len(a) /\ i > Len(b) THEN (IF c = 0 THEN <<>> ELSE <<c>>)
  ELSE LET s == Limb(a, i) + Limb(b, i) + c
       IN  <<s % LimbBase>> \o BAddC(a, b, i + 1, s \div LimbBase)

BAdd(a, b) == BAddC(a, b, 1, 0)

RECURSIVE BSubC(_, _, _, _)
BSubC(a, b, i, borrow) ==
  IF i > Len(a) THEN <<>>
  ELSE LET d == a[i] - Limb(b, i) - borrow
       IN  IF d < 0 THEN <<d + LimbBase>> \o BSubC(a, b, i + 1, 1)
           ELSE <<d>> \o BSubC(a, b, i + 1, 0)

\* a - b for a >= b
BSub(a, b) == BTrim(BSubC(a, b, 1, 0))

RECURSIVE BCmpAt(_, _, _)
BCmpAt(a, b, i) ==
  IF i = 0 THEN 0
  ELSE IF a[i] > b[i] THEN 1
  ELSE IF a[i] < b[i] THEN -1
  ELSE BCmpAt(a, b, i - 1)

\* -1, 0, 1 as a < b, a = b, a > b
BCmp(a, b) ==
  IF Len(a) > Len(b) THEN 1
  ELSE IF Len(a) < Len(b) THEN -1
  ELSE BCmpAt(a, b, Len(a))

RECURSIVE BMulLimb(_, _, _, _)
BMulLimb(a, d, i, c) ==
  IF i > Len(a) THEN (IF c = 0 THEN <<>> ELSE <<c>>)
  ELSE LET p == a[i] * d + c
       IN  <<p % LimbBase>> \o BMulLimb(a, d, i + 1, p \div LimbBase)

RECURSIVE BMulAcc(_, _, _)
BMulAcc(a, b, j) ==
  IF j > Len(b) THEN <<>>
  ELSE BAdd(BMulLimb(a, b[j], 1, 0), <<0>> \o BMulAcc(a, b, j + 1))

BMul(a, b) == IF a = <<>> \/ b = <<>> THEN <<>> ELSE BTrim(BMulAcc(a, b, 1))

\* a * 2^k
BShl(a, k) ==
  IF a = <<>> THEN <<>>
  ELSE LET w == k \div LimbBits
           r == k % LimbBits
       IN  BTrim([i \in 1..(Len(a) + w + 1) |->
                   ((Limb(a, i - w) * 2^r) % LimbBase)
                   + (Limb(a, i - w - 1) \div 2^(LimbBits - r))])

\* floor(a / 2^k)
BShr(a, k) ==
  LET w == k \div LimbBits
      r == k % LimbBits
      n == Len(a) - w
  IN  IF n <= 0 THEN <<>>
      ELSE BTrim([i \in 1..n |->
                   (Limb(a, i + w) \div 2^r)
                   + (Limb(a, i + w + 1) % 2^r) * 2^(LimbBits - r)])

\* a mod 2^k
BLow(a, k) ==
  LET w == k \div LimbBits
      r == k % LimbBits
  IN  BTrim([i \in 1..(w + 1) |->
              IF i <= w THEN Limb(a, i) ELSE Limb(a, i) % 2^r])

LimbLen(x) == CHOOSE n \in 1..LimbBits : 2^(n - 1) <= x /\ x < 2^n

\* number of bits of a
BBitLen(a) ==
  IF a = <<>> THEN 0 ELSE LimbBits * (Len(a) - 1) + LimbLen(a[Len(a)])

\* number of trailing zero bits of a # 0
BTz(a) ==
  LET j == CHOOSE i \in 1..Len(a) : a[i] # 0 /\ \A h \in 1..(i - 1) : a[h] = 0
      t == CHOOSE n \in 0..(LimbBits - 1) : a[j] % 2^(n + 1) = 2^n
  IN  LimbBits * (j - 1) + t

BBit(a, i) == (Limb(a, (i \div LimbBits) + 1) \div 2^(i % LimbBits)) % 2

\* a * d for one limb d
BScale(a, d) == BTrim(BMulLimb(a, d, 1, 0))

\* one digit of long division in base 2^15: the quotient of r by b, where the
\* top limb of b has its high bit set and r < b * 2^15.  The quotient of the
\* two leading limbs of r by the leading limb of b is the digit or exceeds it
\* by at most two.
BDivDigit(r, b) ==
  LET Fits(d)      == BCmp(BScale(b, d), r) <= 0
      Largest(low, top) ==
        CHOOSE d \in low..top : Fits(d) /\ (d = top \/ ~Fits(d + 1))
      Within(top)  == Largest(IF top >= 2 THEN top - 2 ELSE 0, top)
      Capped(est)  == Within(IF est >= LimbBase THEN LimbBase - 1 ELSE est)
  IN  Capped((Limb(r, Len(b) + 1) * LimbBase + Limb(r, Len(b))) \div b[Len(b)])

\* long division: limbs j, j-1, .., 1 of a are brought down into the
\* remainder r, the highest first
RECURSIVE BDivStep(_, _, _, _)
BDivStep(a, b, j, r) ==
  IF j = 0 THEN [q |-> <<>>, r |-> r]
  ELSE LET Push(d, rest) == [q |-> rest.q \o <<d>>, r |-> rest.r]
           Digit(r2, d)  == Push(d, BDivStep(a, b, j - 1,
                                             BSub(r2, BScale(b, d))))
           Down(r2)      == Digit(r2, BDivDigit(r2, b))
       IN  Down(BTrim(<<a[j]>> \o r))

\* quotient and remainder of a by b, b # 0: both are shifted by s bits so
\* that the top limb of b has its high bit set
BDivMod(a, b) ==
  LET Result(d, s)   == [q |-> BTrim(d.q), r |-> BShr(d.r, s)]
      Shifted(an, s) == Result(BDivStep(an, BShl(b, s), Len(an), <<>>), s)
      Norm(s)        == Shifted(BShl(a, s), s)
  IN  Norm(LimbBits - LimbLen(b[Len(b)]))

(***************************************************************************)
(* JavaScript values: Numbers (binary64), null and undefined.              *)
(***************************************************************************)
Num(m, e) == [k |-> "num", m |-> m, e |-> e]
Zero      == [k |-> "num", m |-> <<>>, e |-> 0]
Infinity  == [k |-> "inf", m |-> <<>>, e |-> 0]
NaN       == [k |-> "nan", m |-> <<>>, e |-> 0]
Null      == [k |-> "null", m |-> <<>>, e |-> 0]
Undefined == [k |-> "undef", m |-> <<>>, e |-> 0]

MantissaBits == 53

\* the binary64 nearest to M * 2^E (ties to even), in canonical form
FRound(M, E) ==
  IF M = <<>> THEN Zero
  ELSE LET \* the trailing zero bits go into the exponent
           Strip(q, e, tz) == Num(BShr(q, tz), e + tz)
           Canon(q, e)     == Strip(q, e, BTz(q))
           \* c compares the sh bits dropped from M with half a unit of q
           Up(q, c)        == IF c > 0 \/ (c = 0 /\ q[1] % 2 = 1)
                              THEN BAdd(q, <<1>>) ELSE q
           Drop(sh)        ==
             IF sh = 0 THEN Canon(M, E)
             ELSE Canon(Up(BShr(M, sh),
                           BCmp(BLow(M, sh), BShl(<<1>>, sh - 1))),
                        E + sh)
           Excess(n)       == IF n > MantissaBits THEN n - MantissaBits ELSE 0
       IN  Drop(Excess(BBitLen(M)))

\* the Number of an integer literal or integer-valued variable
FromInt(n) == FRound(BFromInt(n), 0)

IsNum(x) == x.k = "num"
IsZero(x) == x.k = "num" /\ x.m = <<>>

\* ToNumber: null is 0, undefined is NaN
ToNumber(x) ==
  IF x.k = "null" THEN Zero ELSE IF x.k = "undef" THEN NaN ELSE x

\* ToBoolean: 0, NaN, null and undefined are falsy
Truthy(x) == x.k = "inf" \/ (x.k = "num" /\ x.m # <<>>)

\* x || y
Or(x, y) == IF Truthy(x) THEN x ELSE y

\* x * y
FMul(x0, y0) ==
  LET x == ToNumber(x0)
      y == ToNumber(y0)
  IN  IF x.k = "nan" \/ y.k = "nan" THEN NaN
      ELSE IF x.k = "inf" \/ y.k = "inf"
           THEN (IF IsZero(x) \/ IsZero(y) THEN NaN ELSE Infinity)
      ELSE FRound(BMul(x.m, y.m), x.e + y.e)

\* x / y
FDiv(x0, y0) ==
  LET x == ToNumber(x0)
      y == ToNumber(y0)
  IN  IF x.k = "nan" \/ y.k = "nan" THEN NaN
      ELSE IF x.k = "inf" THEN (IF y.k = "inf" THEN NaN ELSE Infinity)
      ELSE IF y.k = "inf" THEN Zero
      ELSE IF IsZero(y) THEN (IF IsZero(x) THEN NaN ELSE Infinity)
      ELSE IF IsZero(x) THEN Zero
      ELSE IF y.m = <<1>> THEN Num(x.m, x.e - y.e)
      ELSE LET \* one sticky bit below the quotient stands for the remainder
               Sticky(d)   == BAdd(BShl(d.q, 1),
                                   IF d.r = <<>> THEN <<>> ELSE <<1>>)
               \* x.m is shifted by s so that the quotient has 55 bits or more
               Quot(s)     == FRound(Sticky(BDivMod(BShl(x.m, s), y.m)),
                                     x.e - y.e - s - 1)
               Shift(need) == IF need > 0 THEN need ELSE 0
           IN  Quot(Shift(BBitLen(y.m) + MantissaBits + 2 - BBitLen(x.m)))

\* x + y
FAdd(x0, y0) ==
  LET x == ToNumber(x0)
      y == ToNumber(y0)
  IN  IF x.k = "nan" \/ y.k = "nan" THEN NaN
      ELSE IF x.k = "inf" \/ y.k = "inf" THEN Infinity
      ELSE IF IsZero(x) THEN y
      ELSE IF IsZero(y) THEN x
      ELSE LET e0 == IF x.e < y.e THEN x.e ELSE y.e
           IN  FRound(BAdd(BShl(x.m, x.e - e0), BShl(y.m, y.e - e0)), e0)

\* -1, 0, 1 for finite x, y
FCmp(x, y) ==
  IF IsZero(x) THEN (IF IsZero(y) THEN 0 ELSE -1)
  ELSE IF IsZero(y) THEN 1
  ELSE LET e0 == IF x.e < y.e THEN x.e ELSE y.e
       IN  BCmp(BShl(x.m, x.e - e0), BShl(y.m, y.e - e0))

\* x > y
FGt(x0, y0) ==
  LET x == ToNumber(x0)
      y == ToNumber(y0)
  IN  IF x.k = "nan" \/ y.k = "nan" THEN FALSE
      ELSE IF y.k = "inf" THEN FALSE
      ELSE IF x.k = "inf" THEN TRUE
      ELSE FCmp(x, y) > 0

\* x <= y
FLe(x0, y0) ==
  LET x == ToNumber(x0)
      y == ToNumber(y0)
  IN  IF x.k = "nan" \/ y.k = "nan" THEN FALSE
      ELSE IF y.k = "inf" THEN TRUE
      ELSE IF x.k = "inf" THEN FALSE
      ELSE FCmp(x, y) <= 0

\* a decimal literal n / 10^d of the source or of the catalog (parseFloat)
Dec(n, d) == FDiv(FromInt(n), FromInt(10^d))

\* parseFloat of a value that is a Number, null or undefined: a Number prints
\* as the shortest decimal that reads back as itself; "null", "undefined" and
\* "NaN" do not start a decimal literal
ParseFloat(x) == IF x.k = "num" \/ x.k = "inf" THEN x ELSE NaN

\* Math.floor(x): a Number with a negative exponent has an odd mantissa and
\* so is not an integer
FFloor(x0) ==
  LET At(x) == IF x.k = "num" /\ x.e < 0
               THEN FRound(BShr(x.m, 0 - x.e), 0) ELSE x
  IN  At(ToNumber(x0))

\* Math.ceil(x)
FCeil(x0) ==
  LET At(x) == IF x.k = "num" /\ x.e < 0
               THEN FRound(BAdd(BShr(x.m, 0 - x.e), <<1>>), 0) ELSE x
  IN  At(ToNumber(x0))

\* Math.min(x, y, z): NaN when an argument is NaN
FMin(x0, y0, z0) ==
  LET Min2(x, y)    == IF FLe(x, y) THEN x ELSE y
      Min3(x, y, z) == IF x.k = "nan" \/ y.k = "nan" \/ z.k = "nan" THEN NaN
                       ELSE Min2(Min2(x, y), z)
  IN  Min3(ToNumber(x0), ToNumber(y0), ToNumber(z0))

(***************************************************************************)
(* Calculator.calculateRequestCost                                         *)
(***************************************************************************)
\* faulty variant: the PTU branch is never taken
calculateRequestCost_NoPTUBranch(model, inputTokens, outputTokens) ==
  LET Costs(inputCost, outputCost) ==
        [inputCost    |-> inputCost,
         outputCost   |-> outputCost,
         totalCost    |-> FAdd(inputCost, outputCost),
         inputTokens  |-> inputTokens,
         outputTokens |-> outputTokens,
         isPTU        |-> FALSE]
  IN  Costs(FMul(FDiv(inputTokens, FromInt(1000000)),
                 model.input_price_per_1m),
            FMul(FDiv(outputTokens, FromInt(1000000)),
                 model.output_price_per_1m))

\* faulty variant: prices taken per 1,000 tokens
calculateRequestCost_Per1K(model, inputTokens, outputTokens) ==
  LET Costs(inputCost, outputCost) ==
        [inputCost    |-> inputCost,
         outputCost   |-> outputCost,
         totalCost    |-> FAdd(inputCost, outputCost),
         inputTokens  |-> inputTokens,
         outputTokens |-> outputTokens,
         isPTU        |-> model.pricing_type = "PTU"]
  IN  Costs(FMul(FDiv(inputTokens, FromInt(1000)),
                 model.input_price_per_1m),
            FMul(FDiv(outputTokens, FromInt(1000)),
                 model.output_price_per_1m))

calculateRequestCost(model, inputTokens, outputTokens) ==
  IF model.pricing_type = "PTU"
  THEN [inputCost    |-> Zero,
        outputCost   |-> Zero,
        totalCost    |-> Zero,
        inputTokens  |-> inputTokens,
        outputTokens |-> outputTokens,
        isPTU        |-> TRUE]
  ELSE LET Costs(inputCost, outputCost) ==
             [inputCost    |-> inputCost,
              outputCost   |-> outputCost,
              totalCost    |-> FAdd(inputCost, outputCost),
              inputTokens  |-> inputTokens,
              outputTokens |-> outputTokens,
              isPTU        |-> FALSE]
       IN  Costs(FMul(FDiv(inputTokens, FromInt(1000000)),
                      model.input_price_per_1m),
                 FMul(FDiv(outputTokens, FromInt(1000000)),
                      model.output_price_per_1m))

(***************************************************************************)
(* Calculator.calculateTotalCost                                           *)
(*                                                                         *)
(* options is an object {mode, duration, totalRequests, daysPerMonth} or,  *)
(* in the legacy signature, a string: str is that string, "" for an        *)
(* object.  An absent property is "undefined" (strings) or Undefined       *)
(* (Numbers).  model is a catalog record or NoModel (null).                *)
(***************************************************************************)
Options(mode, duration, totalRequests, daysPerMonth) ==
  [str |-> "", mode |-> mode, duration |-> duration,
   totalRequests |-> totalRequests, daysPerMonth |-> daysPerMonth]

Timeframe(s) ==
  [str |-> s, mode |-> "undefined", duration |-> "undefined",
   totalRequests |-> Undefined, daysPerMonth |-> Undefined]

\* the legacy call signature: a string in place of the options object
LegacyOptions(options, rpm) ==
  IF options.str # ""
  THEN Options(IF options.str = "total" THEN "total" ELSE "duration",
               options.str,
               IF options.str = "total" THEN rpm ELSE Undefined,
               Undefined)
  ELSE options

LegacyRpm(options, rpm) ==
  IF options.str = "total" THEN FromInt(100) ELSE rpm

\* faulty variant: a month always has 30 days
Multiplier_Fixed30(duration, daysPerMonth) ==
  CASE duration = "hour"  -> FromInt(60)
    [] duration = "day"   -> FMul(FromInt(60), FromInt(24))
    [] duration = "month" -> FMul(FMul(FromInt(60), FromInt(24)), FromInt(30))
    [] OTHER              -> FMul(FromInt(60), FromInt(24))

\* minutes of the duration
Multiplier(duration, daysPerMonth) ==
  CASE duration = "hour"  -> FromInt(60)
    [] duration = "day"   -> FMul(FromInt(60), FromInt(24))
    [] duration = "month" -> FMul(FMul(FromInt(60), FromInt(24)), daysPerMonth)
    [] OTHER              -> FMul(FromInt(60), FromInt(24))

\* faulty variant: the fee is prorated over a month of 30 days
ProratePTU_Fixed30(ptuMonthlyPrice, mode, duration, runtimeMinutes, daysPerMonth) ==
  IF mode = "total"
  THEN FMul(ptuMonthlyPrice,
            FDiv(runtimeMinutes,
                 FMul(FMul(FromInt(30), FromInt(24)), FromInt(60))))
  ELSE CASE duration = "hour"  ->
              FDiv(ptuMonthlyPrice, FMul(FromInt(30), FromInt(24)))
         [] duration = "day"   -> FDiv(ptuMonthlyPrice, FromInt(30))
         [] duration = "month" -> ptuMonthlyPrice
         [] OTHER              -> ptuMonthlyPrice

\* the PTU fee of the horizon
ProratePTU(ptuMonthlyPrice, mode, duration, runtimeMinutes, daysPerMonth) ==
  IF mode = "total"
  THEN LET monthsRuntime ==
             FDiv(runtimeMinutes,
                  FMul(FMul(daysPerMonth, FromInt(24)), FromInt(60)))
       IN  FMul(ptuMonthlyPrice, monthsRuntime)
  ELSE CASE duration = "hour"  ->
              FDiv(ptuMonthlyPrice, FMul(daysPerMonth, FromInt(24)))
         [] duration = "day"   -> FDiv(ptuMonthlyPrice, daysPerMonth)
         [] duration = "month" -> ptuMonthlyPrice
         [] OTHER              -> ptuMonthlyPrice

\* faulty variant: the division is not guarded
RuntimeMinutes_Unguarded(totalRequests, rpm) == FDiv(totalRequests, rpm)

\* totalRequests / rpm, guarded against a rate of zero
RuntimeMinutes(totalRequests, rpm) ==
  IF FGt(rpm, Zero) THEN FDiv(totalRequests, rpm) ELSE Zero

\* faulty variant: the rate is left out of the request count
CalculatedTotalRequests_NoRate(mode, totalRequests, rpm, multiplier) ==
  IF mode = "total" THEN totalRequests ELSE multiplier

\* faulty variant: the request count follows the rate in both modes
CalculatedTotalRequests_AlwaysRate(mode, totalRequests, rpm, multiplier) ==
  FMul(rpm, multiplier)

\* the requests of the horizon
CalculatedTotalRequests(mode, totalRequests, rpm, multiplier) ==
  IF mode = "total" THEN totalRequests ELSE FMul(rpm, multiplier)

\* faulty variant: the unit price is divided by the request count again
PAYGTotals_DividedAgain(requestCost, calculatedTotalRequests) ==
  [totalInputCost  |-> FMul(requestCost.inputCost, calculatedTotalRequests),
   totalOutputCost |-> FMul(requestCost.outputCost, calculatedTotalRequests),
   totalCost       |-> FMul(requestCost.totalCost, calculatedTotalRequests),
   costPerRequest  |-> FDiv(requestCost.totalCost, calculatedTotalRequests),
   isPTU           |-> FALSE,
   ptuMonthlyPrice |-> Undefined]

\* the cost fields of a pay-as-you-go projection
PAYGTotals(requestCost, calculatedTotalRequests) ==
  [totalInputCost  |-> FMul(requestCost.inputCost, calculatedTotalRequests),
   totalOutputCost |-> FMul(requestCost.outputCost, calculatedTotalRequests),
   totalCost       |-> FMul(requestCost.totalCost, calculatedTotalRequests),
   costPerRequest  |-> requestCost.totalCost,
   isPTU           |-> FALSE,
   ptuMonthlyPrice |-> Undefined]

\* faulty variant: the fee is divided by the request count unguarded
PTUTotals_Unguarded(ptuMonthlyPrice, totalCost, calculatedTotalRequests) ==
  [totalInputCost  |-> Zero,
   totalOutputCost |-> Zero,
   totalCost       |-> totalCost,
   costPerRequest  |-> FDiv(totalCost, calculatedTotalRequests),
   isPTU           |-> TRUE,
   ptuMonthlyPrice |-> ptuMonthlyPrice]

\* the cost fields of a provisioned-throughput projection
PTUTotals(ptuMonthlyPrice, totalCost, calculatedTotalRequests) ==
  [totalInputCost  |-> Zero,
   totalOutputCost |-> Zero,
   totalCost       |-> totalCost,
   costPerRequest  |-> IF FGt(calculatedTotalRequests, Zero)
                       THEN FDiv(totalCost, calculatedTotalRequests)
                       ELSE Zero,
   isPTU           |-> TRUE,
   ptuMonthlyPrice |-> ptuMonthlyPrice]

calculateTotalCost(requestCost, rpm0, options0, model) ==
  LET \* the result object of either branch
      Result(rpm, mode, duration, calculatedTotalRequests, runtimeMinutes,
             costs) ==
        [mode              |-> mode,
         period            |-> IF mode = "total" THEN "total" ELSE duration,
         duration          |-> IF mode = "duration" THEN duration ELSE "null",
         rpm               |-> rpm,
         totalRequests     |-> calculatedTotalRequests,
         runtimeMinutes    |-> IF mode = "total" THEN runtimeMinutes ELSE Null,
         totalInputTokens  |-> FMul(requestCost.inputTokens,
                                    calculatedTotalRequests),
         totalOutputTokens |-> FMul(requestCost.outputTokens,
                                    calculatedTotalRequests)]
        @@ costs
      PTUCosts(ptuMonthlyPrice, mode, duration, daysPerMonth,
               calculatedTotalRequests, runtimeMinutes) ==
        PTUTotals(ptuMonthlyPrice,
                  ProratePTU(ptuMonthlyPrice, mode, duration, runtimeMinutes,
                             daysPerMonth),
                  calculatedTotalRequests)
      Costs(rpm, mode, duration, daysPerMonth, calculatedTotalRequests,
            runtimeMinutes) ==
        Result(rpm, mode, duration, calculatedTotalRequests, runtimeMinutes,
               IF /\ requestCost.isPTU
                  /\ ~model.isNull
                  /\ Truthy(model.ptu_price_monthly)
               THEN PTUCosts(Or(ParseFloat(model.ptu_price_monthly), Zero),
                             mode, duration, daysPerMonth,
                             calculatedTotalRequests, runtimeMinutes)
               ELSE PAYGTotals(requestCost, calculatedTotalRequests))
      Horizon(rpm, mode, duration, totalRequests, daysPerMonth, multiplier) ==
        Costs(rpm, mode, duration, daysPerMonth,
              CalculatedTotalRequests(mode, totalRequests, rpm, multiplier),
              IF mode = "total" THEN RuntimeMinutes(totalRequests, rpm)
              ELSE multiplier)
      Destructured(rpm, mode, duration, totalRequests, daysPerMonth) ==
        Horizon(rpm, mode, duration, totalRequests, daysPerMonth,
                IF mode = "total" THEN FromInt(1)
                ELSE Multiplier(duration, daysPerMonth))
      \* the defaults of the destructuring apply to undefined properties
      Call(rpm, options) ==
        Destructured(rpm,
                     IF options.mode = "undefined"
                     THEN "duration" ELSE options.mode,
                     IF options.duration = "undefined"
                     THEN "day" ELSE options.duration,
                     IF options.totalRequests = Undefined
                     THEN FromInt(10000) ELSE options.totalRequests,
                     IF options.daysPerMonth = Undefined
                     THEN FromInt(30) ELSE options.daysPerMonth)
  IN  Call(LegacyRpm(options0, rpm0), LegacyOptions(options0, rpm0))

(***************************************************************************)
(* Calculator.validateQuotas.  A warning is the record pushed by the       *)
(* source without its message, a display string that no check reads.       *)
(***************************************************************************)
Warning(type, severity, limit, current) ==
  [type       |-> type,
   severity   |-> severity,
   limit      |-> limit,
   current    |-> current,
   percentage |-> FMul(FDiv(current, limit), FromInt(100))]

\* the push of one check: the entry when the condition holds
PushIf(cond, w) == IF cond THEN <<w>> ELSE <<>>

\* faulty variant: every entry counts as an error
ErrorCount_AllEntries(warnings) == Len(warnings)

\* warnings.filter(w => w.severity === 'error').length
ErrorCount(warnings) ==
  Cardinality({i \in 1..Len(warnings) : warnings[i].severity = "error"})

\* faulty variant: usage equal to the limit is over the limit
OverLimit_Inclusive(current, limit) == Truthy(limit) /\ FLe(limit, current)

\* limit && current > limit
OverLimit(current, limit) == Truthy(limit) /\ FGt(current, limit)

\* faulty variant: usage of exactly 80% is near the limit
NearLimit_Inclusive(current, limit) ==
  /\ Truthy(limit)
  /\ FLe(FMul(limit, Dec(8, 1)), current)
  /\ FLe(current, limit)

\* limit && current > limit * 0.8 && current <= limit
NearLimit(current, limit) ==
  /\ Truthy(limit)
  /\ FGt(current, FMul(limit, Dec(8, 1)))
  /\ FLe(current, limit)

\* faulty variant: usage near the context window is reported as a warning
ContextCheck_Graded(tokensPerRequest, contextWindow) ==
  PushIf(FGt(tokensPerRequest, contextWindow),
         Warning("context", "error", contextWindow, tokensPerRequest))
  \o
  PushIf(NearLimit(tokensPerRequest, contextWindow),
         Warning("context", "warning", contextWindow, tokensPerRequest))

\* the context window check: tokensPerRequest > model.context_window
ContextCheck(tokensPerRequest, contextWindow) ==
  PushIf(FGt(tokensPerRequest, contextWindow),
         Warning("context", "error", contextWindow, tokensPerRequest))

validateQuotas(model, inputTokens, outputTokens, requestsPerMinute) ==
  LET Result(warnings, limits, tokensPerRequest, tokensPerMinute) ==
        [valid    |-> ErrorCount(warnings) = 0,
         warnings |-> warnings,
         limits   |-> limits,
         usage    |-> [tokensPerMinute   |-> tokensPerMinute,
                       requestsPerMinute |-> requestsPerMinute,
                       tokensPerRequest  |-> tokensPerRequest]]
      \* the five checks in the order of the source
      Checks(limits, tokensPerRequest, tokensPerMinute) ==
        Result(PushIf(OverLimit(requestsPerMinute, limits.rpm),
                      Warning("rpm", "error", limits.rpm, requestsPerMinute))
               \o
               PushIf(OverLimit(tokensPerMinute, limits.tpm),
                      Warning("tpm", "error", limits.tpm, tokensPerMinute))
               \o
               ContextCheck(tokensPerRequest, model.context_window)
               \o
               PushIf(NearLimit(requestsPerMinute, limits.rpm),
                      Warning("rpm", "warning", limits.rpm,
                              requestsPerMinute))
               \o
               PushIf(NearLimit(tokensPerMinute, limits.tpm),
                      Warning("tpm", "warning", limits.tpm, tokensPerMinute)),
               limits, tokensPerRequest, tokensPerMinute)
      Usage(tokensPerRequest) ==
        Checks([tpm |-> Or(model.tpm_limit, Null),
                rpm |-> Or(model.rpm_limit, Null)],
               tokensPerRequest,
               FMul(tokensPerRequest, requestsPerMinute))
  IN  Usage(FAdd(inputTokens, outputTokens))

(***************************************************************************)
(* Calculator.calculateMaxCapacity                                         *)
(***************************************************************************)
\* faulty variant: the RPM limit never bounds the capacity
MaxByRPM_Unlimited(rpmLimit) == Infinity

\* model.rpm_limit || Infinity
MaxByRPM(rpmLimit) == Or(rpmLimit, Infinity)

\* faulty variant: the quotient is not floored
MaxByTPM_Unfloored(tpmLimit, tokensPerRequest) ==
  IF Truthy(tpmLimit) THEN FDiv(tpmLimit, tokensPerRequest) ELSE Infinity

\* model.tpm_limit ? Math.floor(model.tpm_limit / tokensPerRequest) : Infinity
MaxByTPM(tpmLimit, tokensPerRequest) ==
  IF Truthy(tpmLimit) THEN FFloor(FDiv(tpmLimit, tokensPerRequest))
  ELSE Infinity

\* faulty variant: the context window never bounds the capacity
MaxByContext_Unbounded(tokensPerRequest, contextWindow) == Infinity

\* tokensPerRequest <= model.context_window ? Infinity : 0
MaxByContext(tokensPerRequest, contextWindow) ==
  IF FLe(tokensPerRequest, contextWindow) THEN Infinity ELSE Zero

\* faulty variant: the TPM bound is matched before the RPM bound
LimitedBy_TPMFirst(maxRequestsPerMinute, maxByRPM, maxByTPM) ==
  IF maxRequestsPerMinute = maxByTPM THEN "tpm"
  ELSE IF maxRequestsPerMinute = maxByRPM THEN "rpm"
  ELSE IF maxRequestsPerMinute = Zero THEN "context"
  ELSE "none"

\* the chain of === comparisons; no bound is NaN here, so === is equality
LimitedBy(maxRequestsPerMinute, maxByRPM, maxByTPM) ==
  IF maxRequestsPerMinute = maxByRPM THEN "rpm"
  ELSE IF maxRequestsPerMinute = maxByTPM THEN "tpm"
  ELSE IF maxRequestsPerMinute = Zero THEN "context"
  ELSE "none"

calculateMaxCapacity(model, inputTokens, outputTokens) ==
  LET Result(tokensPerRequest, maxByRPM, maxByTPM, maxRequestsPerMinute) ==
        [maxRequestsPerMinute |-> maxRequestsPerMinute,
         limitedBy        |-> LimitedBy(maxRequestsPerMinute, maxByRPM,
                                        maxByTPM),
         maxByRPM         |-> maxByRPM,
         maxByTPM         |-> maxByTPM,
         tokensPerRequest |-> tokensPerRequest]
      Bounds(tokensPerRequest, maxByRPM, maxByTPM, maxByContext) ==
        Result(tokensPerRequest, maxByRPM, maxByTPM,
               FMin(maxByRPM, maxByTPM, maxByContext))
      Capacity(tokensPerRequest) ==
        Bounds(tokensPerRequest,
               MaxByRPM(model.rpm_limit),
               MaxByTPM(model.tpm_limit, tokensPerRequest),
               MaxByContext(tokensPerRequest, model.context_window))
  IN  Capacity(FAdd(inputTokens, outputTokens))

(***************************************************************************)
(* Calculator.generateProjections: one calculateTotalCost call per         *)
(* timeframe, in the legacy signature (a string, no model).                *)
(***************************************************************************)
\* the default of calculateTotalCost's parameter model
NoModel ==
  [isNull |-> TRUE, provider |-> "", model |-> "", pricing_type |-> "",
   input_price_per_1m |-> Undefined, output_price_per_1m |-> Undefined,
   ptu_price_monthly |-> Undefined, context_window |-> Undefined,
   tpm_limit |-> Undefined, rpm_limit |-> Undefined]

Timeframes == {"minute", "hour", "day", "month"}

generateProjections(requestCost, requestsPerMinute) ==
  [timeframe \in Timeframes |->
     calculateTotalCost(requestCost, requestsPerMinute, Timeframe(timeframe),
                        NoModel)]

(***************************************************************************)
(* Calculator.compareModels.  An entry of the argument array carries the   *)
(* properties the source reads; an absent one is Undefined (Numbers) or    *)
(* "undefined" (strings and the boolean enabled, written "true"/"false").  *)
(***************************************************************************)
Comparison(model, inputTokens, outputTokens, rpm, requestsPerMinute, calcMode, duration, totalRequests, daysPerMonth, enabled) ==
  [model             |-> model,
   inputTokens       |-> inputTokens,
   outputTokens      |-> outputTokens,
   rpm               |-> rpm,
   requestsPerMinute |-> requestsPerMinute,
   calcMode          |-> calcMode,
   duration          |-> duration,
   totalRequests     |-> totalRequests,
   daysPerMonth      |-> daysPerMonth,
   enabled           |-> enabled]

\* s || d for a string property: undefined and '' are falsy
OrStr(s, d) == IF s = "undefined" \/ s = "" THEN d ELSE s

\* the options object built for calculateTotalCost
CalcOptions(comp) ==
  Options(OrStr(comp.calcMode, "duration"),
          OrStr(comp.duration, "day"),
          Or(comp.totalRequests, FromInt(10000)),
          Or(comp.daysPerMonth, FromInt(30)))

\* faulty variant: only an absent rate is replaced, a rate of 0 is kept
EntryRate_Nullish(comp) ==
  IF comp.rpm.k \notin {"undef", "null"} THEN comp.rpm
  ELSE IF comp.requestsPerMinute.k \notin {"undef", "null"}
       THEN comp.requestsPerMinute
  ELSE FromInt(100)

\* comp.rpm || comp.requestsPerMinute || 100
EntryRate(comp) == Or(Or(comp.rpm, comp.requestsPerMinute), FromInt(100))

\* faulty variant: an entry without the property counts as disabled
EntryEnabled_Truthy(comp) == comp.enabled = "true"

\* comp.enabled !== false
EntryEnabled(comp) == comp.enabled # "false"

\* the object the callback of comparisons.map returns
EvaluatedEntry(comp, requestCost, rate) ==
  [model       |-> comp.model,
   requestCost |-> requestCost,
   totalCost   |-> calculateTotalCost(requestCost, rate, CalcOptions(comp),
                                      comp.model),
   validation  |-> validateQuotas(comp.model, comp.inputTokens,
                                  comp.outputTokens, rate),
   maxCapacity |-> calculateMaxCapacity(comp.model, comp.inputTokens,
                                        comp.outputTokens),
   enabled     |-> EntryEnabled(comp)]

\* the callback of comparisons.map
CompareEntry(comp) ==
  EvaluatedEntry(comp,
                 calculateRequestCost(comp.model, comp.inputTokens,
                                      comp.outputTokens),
                 EntryRate(comp))

\* comparisons.map(..): a new array, one element per entry
MapEntries(comparisons) ==
  [i \in 1..Len(comparisons) |-> CompareEntry(comparisons[i])]

\* the sign of the comparator a.totalCost.totalCost - b.totalCost.totalCost;
\* a difference that is NaN orders like 0
CostOrder(a, b) ==
  LET Sign(x, y) ==
        IF x.k = "nan" \/ y.k = "nan" THEN 0
        ELSE IF x.k = "inf" THEN (IF y.k = "inf" THEN 0 ELSE 1)
        ELSE IF y.k = "inf" THEN -1
        ELSE FCmp(x, y)
  IN  Sign(ToNumber(a.totalCost.totalCost), ToNumber(b.totalCost.totalCost))

\* sorted is in order; x goes behind every element the comparator does not
\* put after it
RECURSIVE InsertByCost(_, _)
InsertByCost(sorted, x) ==
  IF sorted = <<>> THEN <<x>>
  ELSE IF CostOrder(sorted[Len(sorted)], x) <= 0 THEN Append(sorted, x)
  ELSE Append(InsertByCost(SubSeq(sorted, 1, Len(sorted) - 1), x),
              sorted[Len(sorted)])

\* faulty variant: the array is returned as mapped
SortByCost_Unsorted(results) == results

\* Array.prototype.sort with the cost comparator: the sort is stable, so for
\* costs that are numbers the result is the one ordered arrangement that
\* keeps equal elements in their order
RECURSIVE SortByCost(_)
SortByCost(results) ==
  IF results = <<>> THEN <<>>
  ELSE InsertByCost(SortByCost(SubSeq(results, 1, Len(results) - 1)),
                    results[Len(results)])

compareModels(comparisons) == SortByCost(MapEntries(comparisons))

\* faulty variant: the argument array itself is put in the order of the costs
ArgumentAfterCompare_Sorted(comparisons) ==
  LET Place(order) == [i \in 1..Len(comparisons) |-> comparisons[order[i]]]
  IN  Place(CHOOSE order \in [1..Len(comparisons) -> 1..Len(comparisons)] :
              /\ \A i, j \in 1..Len(comparisons) :
                   i # j => order[i] # order[j]
              /\ [i \in 1..Len(comparisons) |->
                    CompareEntry(comparisons[order[i]])]
                 = compareModels(comparisons))

\* the argument array as the call leaves it: map reads the entries and
\* builds the array that sort then orders in place
ArgumentAfterCompare(comparisons) == comparisons

(***************************************************************************)
(* Utils: conversion of an amount of text to tokens.                       *)
(***************************************************************************)
CHARS_PER_TOKEN == FromInt(4)
TOKENS_PER_WORD == Dec(13, 1)

charsToTokens(chars) == FCeil(FDiv(chars, CHARS_PER_TOKEN))

\* faulty variant: the product is rounded down
wordsToTokens_Floor(words) == FFloor(FMul(words, TOKENS_PER_WORD))

wordsToTokens(words) == FCeil(FMul(words, TOKENS_PER_WORD))

toTokens(value, unit) ==
  CASE unit = "tokens" -> value
    [] unit = "chars"  -> charsToTokens(value)
    [] unit = "words"  -> wordsToTokens(value)
    [] OTHER           -> value

(***************************************************************************)
(* App: the catalog, the custom models and the selection.  A record of     *)
(* these arrays carries the fields the operations read: the key (provider, *)
(* model) and isCustom, which a catalog row lacks (FALSE).                 *)
(***************************************************************************)
AppModel(provider, modelName, isCustom) ==
  [provider |-> provider, model |-> modelName, isCustom |-> isCustom]

\* m.provider === provider && m.model === modelName
HasKey(m, provider, modelName) ==
  m.provider = provider /\ m.model = modelName

\* array.findIndex(m => key matches), 1-based; 0 for no match
FindIndex(array, provider, modelName) ==
  IF \E i \in 1..Len(array) : HasKey(array[i], provider, modelName)
  THEN CHOOSE i \in 1..Len(array) :
         /\ HasKey(array[i], provider, modelName)
         /\ \A j \in 1..(i - 1) : ~HasKey(array[j], provider, modelName)
  ELSE 0

\* array.filter(m => !(key matches))
WithoutKey(array, provider, modelName) ==
  LET Other(m) == ~HasKey(m, provider, modelName)
  IN  SelectSeq(array, Other)

\* reloadModels: the rows that are not custom, then the custom models
ReloadedModels(models, customModels) ==
  LET NotCustom(m) == ~m.isCustom
  IN  SelectSeq(models, NotCustom) \o customModels

\* faulty variant: the model is pushed without looking for its key
SelectionWith_Unchecked(selectedModels, m) == Append(selectedModels, m)

\* addModelToSelection: selectedModels after the call
SelectionWith(selectedModels, m) ==
  IF FindIndex(selectedModels, m.provider, m.model) # 0 THEN selectedModels
  ELSE Append(selectedModels, m)

\* removeModelFromSelection: selectedModels after the call
SelectionWithout(selectedModels, provider, modelName) ==
  WithoutKey(selectedModels, provider, modelName)

\* reset: the selection is emptied and the first model named GPT-5 added
SelectionAfterReset(models) ==
  IF \E i \in 1..Len(models) : models[i].model = "GPT-5"
  THEN SelectionWith(<<>>,
         models[CHOOSE i \in 1..Len(models) :
                  /\ models[i].model = "GPT-5"
                  /\ \A j \in 1..(i - 1) : models[j].model # "GPT-5"])
  ELSE <<>>

(***************************************************************************)
(* Inputs.  A model record is one row of the catalog as Utils.parseCSV     *)
(* delivers it (an empty numeric cell parses to NaN) or a custom model     *)
(* (absent limits are null).                                               *)
(***************************************************************************)
Model(provider, name, pricing, inPrice, outPrice, ptuPrice, ctx, tpm, rpm) ==
  [isNull             |-> FALSE,
   provider           |-> provider,
   model              |-> name,
   pricing_type       |-> pricing,
   input_price_per_1m |-> inPrice,
   output_price_per_1m |-> outPrice,
   ptu_price_monthly  |-> ptuPrice,
   context_window     |-> ctx,
   tpm_limit          |-> tpm,
   rpm_limit          |-> rpm]

MiniPAYG ==
  Model("OpenAI", "gpt-4o-mini", "PAYG", Dec(15, 2), Dec(6, 1), NaN,
        FromInt(128000), FromInt(2000000), FromInt(500))
BasePAYG ==
  Model("OpenAI", "GPT-5", "PAYG", Dec(125, 2), FromInt(10), NaN,
        FromInt(400000), FromInt(3000000), FromInt(300))
BasePTU ==
  Model("Azure", "gpt-4o-ptu", "PTU", Zero, Zero, FromInt(3000),
        FromInt(128000), NaN, NaN)
UnpricedPTU ==
  Model("Azure", "gpt-4-ptu", "PTU", Zero, Zero, NaN,
        FromInt(128000), NaN, NaN)

FreePTU ==
  Model("Azure", "gpt-35-ptu", "PTU", Zero, Zero, Zero,
        FromInt(128000), NaN, NaN)

CostModels == {MiniPAYG, BasePAYG, BasePTU, UnpricedPTU, FreePTU}

MaxTokens == 2
TokenCounts == {FromInt(n) : n \in 0..MaxTokens}

CostRates == {FromInt(0), FromInt(1), FromInt(3), FromInt(100)}

DayCounts == {Undefined, FromInt(28), FromInt(31)}
TotalCounts == {Undefined, FromInt(0), FromInt(7)}

OptionSet ==
  {Options("duration", d, Undefined, dpm) :
     d \in {"hour", "day", "month"}, dpm \in DayCounts}
  \cup {Options("undefined", "undefined", Undefined, Undefined)}
  \cup {Options("duration", "week", Undefined, dpm) :
          dpm \in {Undefined, FromInt(31)}}
  \cup {Options("total", "undefined", t, dpm) :
          t \in TotalCounts, dpm \in DayCounts}

MaxScale == 3
Scales == {FromInt(k) : k \in 0..MaxScale}

\* entries of a comparison: a day of one request per minute unless stated
DayEntry(model, enabled) ==
  Comparison(model, FromInt(2), FromInt(1), FromInt(1), Undefined,
             "duration", "day", Undefined, Undefined, enabled)

CompareEntries ==
  {DayEntry(MiniPAYG, "undefined"),
   DayEntry(MiniPAYG, "false"),
   DayEntry(BasePAYG, "true"),
   DayEntry(BasePTU, "undefined"),
   DayEntry(FreePTU, "true"),
   DayEntry(UnpricedPTU, "false"),
   Comparison(MiniPAYG, FromInt(1), FromInt(1), Undefined, Undefined,
              "undefined", "undefined", Undefined, Undefined, "true"),
   Comparison(BasePAYG, FromInt(2), FromInt(1), Zero, FromInt(3),
              "total", "undefined", Zero, Undefined, "true"),
   Comparison(BasePTU, FromInt(2), FromInt(1), Zero, Undefined,
              "duration", "month", Undefined, Zero, "true")}

MaxEntries == 2
ComparisonLists ==
  UNION {[1..n -> CompareEntries] : n \in 0..MaxEntries}

\* amounts of text and the units a caller names; 'sentences' is not a unit
\* toTokens knows
MaxValue == 40
TextAmounts == {FromInt(v) : v \in 0..MaxValue}
Units == {"tokens", "chars", "words", "sentences"}

\* the catalog rows, and what the custom model form can submit
Catalog ==
  <<AppModel("OpenAI", "GPT-5", FALSE), AppModel("Anthropic", "Claude", FALSE)>>
\* a custom model with the key of a catalog row, one with a key of its own,
\* and a submission without a name
CustomData ==
  {AppModel("OpenAI", "GPT-5", TRUE), AppModel("Acme", "m1", TRUE),
   AppModel("Acme", "", TRUE)}
MaxCustom == 2

(***************************************************************************)
(* State: the arguments of the calls and the value each call returned.     *)
(***************************************************************************)
VARIABLES
  pc,            \* the call that comes next
  model,         \* the model record
  inputTokens,   \* tokens per request
  outputTokens,
  rpm,           \* requests per minute
  options,       \* the options of calculateTotalCost
  scale,         \* the factor k of the second projection
  requestCost,   \* calculateRequestCost(model, inputTokens, outputTokens)
  totalCost,     \* calculateTotalCost(requestCost, rpm, options, model)
  scaledCost,    \* calculateTotalCost(requestCost, rpm * scale, options, model)
  validation,    \* validateQuotas(model, inputTokens, outputTokens, rpm)
  maxCapacity,   \* calculateMaxCapacity(model, inputTokens, outputTokens)
  projections,   \* generateProjections(requestCost, rpm)
  comparisons,   \* the array passed to compareModels
  mapped,        \* the array comparisons.map built, before it is sorted
  results,       \* the array compareModels returned
  again,         \* the array a second compareModels call returned
  value,         \* the amount passed to Utils.toTokens
  unit,          \* its unit
  tokens,        \* Utils.toTokens(value, unit)
  models,        \* App.models: the catalog rows and the custom models
  customModels,  \* App.customModels
  selectedModels \* App.selectedModels

vars == <<pc, model, inputTokens, outputTokens, rpm, options, scale,
          requestCost, totalCost, scaledCost, validation, maxCapacity,
          projections, comparisons, mapped, results, again, value, unit,
          tokens, models, customModels, selectedModels>>

\* the variables of the other callers
compareVars == <<comparisons, mapped, results, again>>
tokenVars   == <<value, unit, tokens>>
appVars     == <<models, customModels, selectedModels>>

None == [none |-> TRUE]

\* a caller prices one request, projects it, and projects it again at k times
\* the rate
InitCost ==
  /\ pc = "requestCost"
  /\ model \in CostModels
  /\ inputTokens \in TokenCounts
  /\ outputTokens \in TokenCounts
  /\ rpm \in CostRates
  /\ options \in OptionSet
  /\ scale = Zero
  /\ requestCost = None
  /\ totalCost = None
  /\ scaledCost = None
  /\ validation = None
  /\ maxCapacity = None
  /\ projections = None
  /\ comparisons = None
  /\ mapped = None
  /\ results = None
  /\ again = None
  /\ value = None
  /\ unit = None
  /\ tokens = None
  /\ models = None
  /\ customModels = None
  /\ selectedModels = None

CallRequestCost ==
  /\ pc = "requestCost"
  /\ requestCost' = calculateRequestCost(model, inputTokens, outputTokens)
  /\ pc' = "totalCost"
  /\ UNCHANGED <<model, inputTokens, outputTokens, rpm, options, scale,
                 totalCost, scaledCost, validation, maxCapacity, projections,
                 compareVars, tokenVars, appVars>>

CallTotalCost ==
  /\ pc = "totalCost"
  /\ totalCost' = calculateTotalCost(requestCost, rpm, options, model)
  /\ pc' = "scaledCost"
  /\ UNCHANGED <<model, inputTokens, outputTokens, rpm, options, scale,
                 requestCost, scaledCost, validation, maxCapacity,
                 projections, compareVars, tokenVars, appVars>>

CallScaledCost ==
  /\ pc = "scaledCost"
  /\ \E k \in Scales :
       /\ scale' = k
       /\ scaledCost' =
            calculateTotalCost(requestCost, FMul(rpm, k), options, model)
  /\ pc' = "done"
  /\ UNCHANGED <<model, inputTokens, outputTokens, rpm, options,
                 requestCost, totalCost, validation, maxCapacity,
                 projections, compareVars, tokenVars, appVars>>

NextCost == CallRequestCost \/ CallTotalCost \/ CallScaledCost

SpecCost == InitCost /\ [][NextCost]_vars

\* a caller validates one usage against the limits of a model
RpmLimits == {Null, Zero, FromInt(5)}
TpmLimits == {NaN, Zero, FromInt(3), FromInt(10)}
ContextWindows == {Null, Undefined, FromInt(3), FromInt(128000)}

QuotaModels ==
  {Model("Custom", "limited", "PAYG", Dec(15, 2), Dec(6, 1), Null, c, t, r) :
     c \in ContextWindows, t \in TpmLimits, r \in RpmLimits}

MaxRate == 6
QuotaRates == {FromInt(r) : r \in 0..MaxRate} \cup {Dec(45, 1)}

InitQuota ==
  /\ pc = "validateQuotas"
  /\ model \in QuotaModels
  /\ inputTokens \in TokenCounts
  /\ outputTokens \in TokenCounts
  /\ rpm \in QuotaRates
  /\ options = Options("undefined", "undefined", Undefined, Undefined)
  /\ scale = Zero
  /\ requestCost = None
  /\ totalCost = None
  /\ scaledCost = None
  /\ validation = None
  /\ maxCapacity = None
  /\ projections = None
  /\ comparisons = None
  /\ mapped = None
  /\ results = None
  /\ again = None
  /\ value = None
  /\ unit = None
  /\ tokens = None
  /\ models = None
  /\ customModels = None
  /\ selectedModels = None

CallValidateQuotas ==
  /\ pc = "validateQuotas"
  /\ validation' = validateQuotas(model, inputTokens, outputTokens, rpm)
  /\ pc' = "validated"
  /\ UNCHANGED <<model, inputTokens, outputTokens, rpm, options, scale,
                 requestCost, totalCost, scaledCost, maxCapacity,
                 projections, compareVars, tokenVars, appVars>>

\* the same caller asks for the capacity of the model at these token counts
CallMaxCapacity ==
  /\ pc = "validated"
  /\ maxCapacity' = calculateMaxCapacity(model, inputTokens, outputTokens)
  /\ pc' = "capacity"
  /\ UNCHANGED <<model, inputTokens, outputTokens, rpm, options, scale,
                 requestCost, totalCost, scaledCost, validation,
                 projections, compareVars, tokenVars, appVars>>

NextQuota == CallValidateQuotas \/ CallMaxCapacity

SpecQuota == InitQuota /\ [][NextQuota]_vars

\* a caller compares a list of entries, and compares the same list again
InitCompare ==
  /\ pc = "compareModels"
  /\ comparisons \in ComparisonLists
  /\ mapped = None
  /\ results = None
  /\ again = None
  /\ model = NoModel
  /\ inputTokens = Zero
  /\ outputTokens = Zero
  /\ rpm = Zero
  /\ options = Options("undefined", "undefined", Undefined, Undefined)
  /\ scale = Zero
  /\ requestCost = None
  /\ totalCost = None
  /\ scaledCost = None
  /\ validation = None
  /\ maxCapacity = None
  /\ projections = None
  /\ value = None
  /\ unit = None
  /\ tokens = None
  /\ models = None
  /\ customModels = None
  /\ selectedModels = None

CallCompareModels ==
  /\ pc \in {"compareModels", "compared"}
  /\ mapped' = MapEntries(comparisons)
  /\ IF pc = "compareModels"
       THEN /\ results' = SortByCost(mapped')
            /\ again' = again
            /\ pc' = "compared"
       ELSE /\ again' = SortByCost(mapped')
            /\ results' = results
            /\ pc' = "comparedAgain"
  /\ comparisons' = ArgumentAfterCompare(comparisons)
  /\ UNCHANGED <<model, inputTokens, outputTokens, rpm, options, scale,
                 requestCost, totalCost, scaledCost, validation,
                 maxCapacity, projections, tokenVars, appVars>>

NextCompare == CallCompareModels

SpecCompare == InitCompare /\ [][NextCompare]_vars

\* a caller prices one request and asks for its projections
InitProjections ==
  /\ InitCost
  /\ options = Options("undefined", "undefined", Undefined, Undefined)

CallGenerateProjections ==
  /\ pc = "totalCost"
  /\ projections' = generateProjections(requestCost, rpm)
  /\ pc' = "projected"
  /\ UNCHANGED <<model, inputTokens, outputTokens, rpm, options, scale,
                 requestCost, totalCost, scaledCost, validation,
                 maxCapacity, compareVars, tokenVars, appVars>>

NextProjections == CallRequestCost \/ CallGenerateProjections

SpecProjections == InitProjections /\ [][NextProjections]_vars

\* a caller converts an amount of text in a unit to tokens
InitTokens ==
  /\ pc = "toTokens"
  /\ value \in TextAmounts
  /\ unit \in Units
  /\ tokens = None
  /\ models = None
  /\ customModels = None
  /\ selectedModels = None
  /\ model = NoModel
  /\ inputTokens = Zero
  /\ outputTokens = Zero
  /\ rpm = Zero
  /\ options = Options("undefined", "undefined", Undefined, Undefined)
  /\ scale = Zero
  /\ requestCost = None
  /\ totalCost = None
  /\ scaledCost = None
  /\ validation = None
  /\ maxCapacity = None
  /\ projections = None
  /\ comparisons = None
  /\ mapped = None
  /\ results = None
  /\ again = None

CallToTokens ==
  /\ pc = "toTokens"
  /\ tokens' = toTokens(value, unit)
  /\ pc' = "converted"
  /\ UNCHANGED <<model, inputTokens, outputTokens, rpm, options, scale,
                 requestCost, totalCost, scaledCost, validation,
                 maxCapacity, projections, compareVars, value, unit,
                 appVars>>

NextTokens == CallToTokens

SpecTokens == InitTokens /\ [][NextTokens]_vars

\* the application after init: the catalog is loaded, no custom model is
\* stored, and GPT-5 is selected
InitApp ==
  /\ pc = "app"
  /\ models = Catalog
  /\ customModels = <<>>
  /\ selectedModels = SelectionAfterReset(Catalog)
  /\ model = NoModel
  /\ inputTokens = Zero
  /\ outputTokens = Zero
  /\ rpm = Zero
  /\ options = Options("undefined", "undefined", Undefined, Undefined)
  /\ scale = Zero
  /\ requestCost = None
  /\ totalCost = None
  /\ scaledCost = None
  /\ validation = None
  /\ maxCapacity = None
  /\ projections = None
  /\ comparisons = None
  /\ mapped = None
  /\ results = None
  /\ again = None
  /\ value = None
  /\ unit = None
  /\ tokens = None

engineVars ==
  <<pc, model, inputTokens, outputTokens, rpm, options, scale, requestCost,
    totalCost, scaledCost, validation, maxCapacity, projections, compareVars,
    tokenVars>>

\* the form submits a new custom model; a missing provider or name throws
AddCustomModel ==
  /\ pc = "app"
  /\ Len(customModels) < MaxCustom
  /\ \E modelData \in CustomData :
       IF modelData.provider = "" \/ modelData.model = ""
       THEN UNCHANGED <<models, customModels>>
       ELSE /\ customModels' = Append(customModels, modelData)
            /\ models' = Append(models, modelData)
  /\ UNCHANGED <<selectedModels, engineVars>>

\* the form submits the edit of the custom model with the original key
UpdateCustomModel ==
  /\ pc = "app"
  /\ \E i \in 1..Len(customModels), updatedData \in CustomData :
       /\ customModels' =
            [customModels EXCEPT
               ![FindIndex(customModels, customModels[i].provider,
                           customModels[i].model)] = updatedData]
       /\ models' = ReloadedModels(models, customModels')
  /\ UNCHANGED <<selectedModels, engineVars>>

\* the delete button of a custom model
DeleteCustomModel ==
  /\ pc = "app"
  /\ \E i \in 1..Len(customModels) :
       /\ customModels' = WithoutKey(customModels, customModels[i].provider,
                                     customModels[i].model)
       /\ selectedModels' =
            SelectionWithout(selectedModels, customModels[i].provider,
                             customModels[i].model)
       /\ models' = ReloadedModels(models, customModels')
  /\ UNCHANGED engineVars

ReloadModels ==
  /\ pc = "app"
  /\ models' = ReloadedModels(models, customModels)
  /\ UNCHANGED <<customModels, selectedModels, engineVars>>

\* a checkbox is ticked: the first model with its key is selected
AddModelToSelection ==
  /\ pc = "app"
  /\ \E i \in 1..Len(models) :
       selectedModels' =
         SelectionWith(selectedModels,
                       models[FindIndex(models, models[i].provider,
                                        models[i].model)])
  /\ UNCHANGED <<models, customModels, engineVars>>

\* a checkbox is cleared or a remove button pressed
RemoveModelFromSelection ==
  /\ pc = "app"
  /\ \E i \in 1..Len(selectedModels) :
       selectedModels' =
         SelectionWithout(selectedModels, selectedModels[i].provider,
                          selectedModels[i].model)
  /\ UNCHANGED <<models, customModels, engineVars>>

Reset ==
  /\ pc = "app"
  /\ selectedModels' = SelectionAfterReset(models)
  /\ UNCHANGED <<models, customModels, engineVars>>

NextApp ==
  \/ AddCustomModel
  \/ UpdateCustomModel
  \/ DeleteCustomModel
  \/ ReloadModels
  \/ AddModelToSelection
  \/ RemoveModelFromSelection
  \/ Reset

SpecApp == InitApp /\ [][NextApp]_vars

(***************************************************************************)
(* Properties of the cost engine, checked under SpecCost.                  *)
(***************************************************************************)

\* |a - b| <= 2^-50 * max(a, b), in exact arithmetic: a and b differ by the
\* rounding of a few binary64 operations at most
FClose(a, b) ==
  IF ~IsNum(a) \/ ~IsNum(b) \/ IsZero(a) \/ IsZero(b) THEN a = b
  ELSE LET e0 == IF a.e < b.e THEN a.e ELSE b.e
           A  == BShl(a.m, a.e - e0)
           B  == BShl(b.m, b.e - e0)
           hi == IF BCmp(A, B) >= 0 THEN A ELSE B
           lo == IF BCmp(A, B) >= 0 THEN B ELSE A
       IN  BCmp(BShl(BSub(hi, lo), 50), hi) <= 0

\* the horizon the options select, with the defaults of an absent property
DurationMode == options.mode # "total"
DaysPerMonth ==
  IF options.daysPerMonth = Undefined THEN FromInt(30)
  ELSE options.daysPerMonth
GivenTotal ==
  IF options.totalRequests = Undefined THEN FromInt(10000)
  ELSE options.totalRequests

\* the state right after calculateRequestCost, calculateTotalCost returned
Priced == pc = "totalCost"
Projected == pc = "scaledCost"

\* C1: for a PTU model, whatever the token counts, the request cost has
\* inputCost = outputCost = totalCost = 0 and isPTU = true, and echoes the
\* token counts.
C1_PTURequestCostIsZero ==
  (Priced /\ model.pricing_type = "PTU") =>
    requestCost = [inputCost    |-> Zero,
                   outputCost   |-> Zero,
                   totalCost    |-> Zero,
                   inputTokens  |-> inputTokens,
                   outputTokens |-> outputTokens,
                   isPTU        |-> TRUE]

C1_Witness ==
  /\ Priced
  /\ model = BasePTU
  /\ inputTokens = FromInt(2)
  /\ outputTokens = FromInt(1)
  /\ requestCost.totalCost = Zero
  /\ requestCost.isPTU

\* C2: for a model that is not PTU, inputCost = inputTokens / 1,000,000 x
\* input_price_per_1m and outputCost likewise (each within rounding of
\* tokens x price / 1,000,000), totalCost = inputCost + outputCost,
\* isPTU = false, and zero tokens cost zero.
C2_PAYGRequestCost ==
  (Priced /\ model.pricing_type # "PTU") =>
    /\ requestCost.inputCost =
         FMul(FDiv(inputTokens, FromInt(1000000)), model.input_price_per_1m)
    /\ requestCost.outputCost =
         FMul(FDiv(outputTokens, FromInt(1000000)), model.output_price_per_1m)
    /\ FClose(requestCost.inputCost,
              FDiv(FMul(inputTokens, model.input_price_per_1m),
                   FromInt(1000000)))
    /\ FClose(requestCost.outputCost,
              FDiv(FMul(outputTokens, model.output_price_per_1m),
                   FromInt(1000000)))
    /\ requestCost.totalCost =
         FAdd(requestCost.inputCost, requestCost.outputCost)
    /\ requestCost.isPTU = FALSE
    /\ requestCost.inputTokens = inputTokens
    /\ requestCost.outputTokens = outputTokens
    /\ (inputTokens = Zero /\ outputTokens = Zero
          => requestCost.totalCost = Zero)

C2_Witness ==
  /\ Priced
  /\ model = MiniPAYG
  /\ inputTokens = FromInt(2)
  /\ outputTokens = FromInt(1)
  /\ requestCost.inputCost = Dec(3, 7)
  /\ requestCost.outputCost = Dec(6, 7)
  /\ requestCost.totalCost = Dec(9, 7)

\* C3: in duration mode totalRequests = rpm x M with M = 60 for 'hour',
\* 1440 for 'day', daysPerMonth x 1440 for 'month' (daysPerMonth 30 when
\* absent), and the token totals are the per-request tokens x totalRequests;
\* rpm 100 over a day is 144000 requests.
C3_Minutes ==
  CASE options.duration = "hour"  -> FromInt(60)
    [] options.duration = "day"   -> FromInt(1440)
    [] options.duration = "month" -> FMul(DaysPerMonth, FromInt(1440))

C3_DurationRequests ==
  (Projected /\ DurationMode
      /\ options.duration \in {"hour", "day", "month"}) =>
    /\ totalCost.totalRequests = FMul(rpm, C3_Minutes)
    /\ totalCost.totalInputTokens =
         FMul(requestCost.inputTokens, totalCost.totalRequests)
    /\ totalCost.totalOutputTokens =
         FMul(requestCost.outputTokens, totalCost.totalRequests)
    /\ (rpm = FromInt(100) /\ options.duration = "day"
          => totalCost.totalRequests = FromInt(144000))

C3_Witness ==
  /\ Projected
  /\ options = Options("duration", "month", Undefined, FromInt(31))
  /\ rpm = FromInt(100)
  /\ inputTokens = FromInt(2)
  /\ totalCost.totalRequests = FromInt(4464000)
  /\ totalCost.totalInputTokens = FromInt(8928000)

\* C4 (as stated): for a PAYG request cost the totals are the unit costs x
\* totalRequests, costPerRequest is the unit price, and totalCost =
\* totalInputCost + totalOutputCost.
C4_Products ==
  /\ totalCost.totalInputCost =
       FMul(requestCost.inputCost, totalCost.totalRequests)
  /\ totalCost.totalOutputCost =
       FMul(requestCost.outputCost, totalCost.totalRequests)
  /\ totalCost.totalCost =
       FMul(requestCost.totalCost, totalCost.totalRequests)
  /\ totalCost.costPerRequest = requestCost.totalCost

C4_PAYGTotalsAddUp ==
  (Projected /\ ~requestCost.isPTU) =>
    /\ C4_Products
    /\ totalCost.totalCost =
         FAdd(totalCost.totalInputCost, totalCost.totalOutputCost)

\* C4 (amended): for a PAYG request cost, in both horizon modes and for
\* totalRequests = 0, the totals are the unit costs x totalRequests and
\* costPerRequest is the unit price; totalCost equals totalInputCost +
\* totalOutputCost up to floating-point rounding only.
C4_PAYGTotals ==
  (Projected /\ ~requestCost.isPTU) =>
    /\ C4_Products
    /\ FClose(totalCost.totalCost,
              FAdd(totalCost.totalInputCost, totalCost.totalOutputCost))
    /\ (totalCost.totalRequests = Zero => totalCost.totalCost = Zero)

C4_Witness ==
  /\ Projected
  /\ model = MiniPAYG
  /\ inputTokens = FromInt(1)
  /\ outputTokens = FromInt(1)
  /\ rpm = FromInt(100)
  /\ options = Options("duration", "day", Undefined, Undefined)
  /\ totalCost.totalRequests = FromInt(144000)
  /\ totalCost.totalCost = Dec(108, 3)
  /\ totalCost.totalCost #
       FAdd(totalCost.totalInputCost, totalCost.totalOutputCost)

\* C5: for a PTU model in duration mode totalCost = ptu_price_monthly /
\* (daysPerMonth x 24) for 'hour', ptu_price_monthly / daysPerMonth for
\* 'day' and ptu_price_monthly itself for 'month', for every daysPerMonth
\* (30 when absent) and whatever the rate and the token counts; 3000 a month
\* is 3000/720 an hour.
C5_Fee ==
  CASE options.duration = "hour"  ->
         FDiv(model.ptu_price_monthly, FMul(DaysPerMonth, FromInt(24)))
    [] options.duration = "day"   ->
         FDiv(model.ptu_price_monthly, DaysPerMonth)
    [] options.duration = "month" -> model.ptu_price_monthly

C5_PTUDurationFee ==
  (Projected /\ model.pricing_type = "PTU" /\ IsNum(model.ptu_price_monthly)
      /\ DurationMode /\ options.duration \in {"hour", "day", "month"}) =>
    /\ totalCost.totalCost = C5_Fee
    /\ (model.ptu_price_monthly = FromInt(3000) /\ options.duration = "hour"
          /\ options.daysPerMonth = Undefined
          => totalCost.totalCost = FDiv(FromInt(3000), FromInt(720)))

C5_Witness ==
  /\ Projected
  /\ model = BasePTU
  /\ options = Options("duration", "hour", Undefined, FromInt(31))
  /\ rpm = FromInt(3)
  /\ inputTokens = FromInt(2)
  /\ totalCost.totalCost = FDiv(FromInt(3000), FromInt(744))
  /\ totalCost.isPTU

\* C6: for a PTU model in fixed-total mode runtimeMinutes = totalRequests /
\* rpm when rpm > 0 and 0 otherwise, and totalCost = ptu_price_monthly x
\* (runtimeMinutes / (daysPerMonth x 1440)), within rounding of
\* ptu_price_monthly x runtimeMinutes / (daysPerMonth x 1440); with rpm = 0
\* the call returns runtimeMinutes = 0 and totalCost = 0.
C6_Runtime ==
  IF FGt(rpm, Zero) THEN FDiv(GivenTotal, rpm) ELSE Zero

C6_PTUFixedTotalFee ==
  (Projected /\ model.pricing_type = "PTU" /\ IsNum(model.ptu_price_monthly)
      /\ ~DurationMode) =>
    /\ totalCost.runtimeMinutes = C6_Runtime
    /\ totalCost.totalCost =
         FMul(model.ptu_price_monthly,
              FDiv(C6_Runtime, FMul(DaysPerMonth, FromInt(1440))))
    /\ FClose(totalCost.totalCost,
              FDiv(FMul(model.ptu_price_monthly, C6_Runtime),
                   FMul(DaysPerMonth, FromInt(1440))))
    /\ (rpm = Zero => /\ totalCost.runtimeMinutes = Zero
                      /\ totalCost.totalCost = Zero)

C6_Witness ==
  /\ Projected
  /\ model = BasePTU
  /\ options = Options("total", "undefined", FromInt(7), FromInt(31))
  /\ rpm = Zero
  /\ totalCost.runtimeMinutes = Zero
  /\ totalCost.totalCost = Zero
  /\ totalCost.totalRequests = FromInt(7)

\* C7 (as stated): for a PAYG request cost, every usage specification and
\* every k >= 0, the projection at requestsPerMinute x k has exactly k times
\* the totalCost of the projection at requestsPerMinute.
Scaled == pc = "done"

Validated == pc = "validated"

\* the positions of the returned warnings of a type and severity
Entries(type, severity) ==
  {i \in 1..Len(validation.warnings) :
     /\ validation.warnings[i].type = type
     /\ validation.warnings[i].severity = severity}

\* C8: valid is true if and only if no returned warning has severity
\* 'error'; entries of severity 'warning' do not make the result invalid.
C8_ValidIffNoError ==
  Validated =>
    (validation.valid <=>
       \A i \in 1..Len(validation.warnings) :
         validation.warnings[i].severity # "error")

C8_Witness ==
  /\ Validated
  /\ validation.valid
  /\ Len(validation.warnings) = 2
  /\ Entries("rpm", "warning") # {}
  /\ Entries("tpm", "warning") # {}

\* C9: with rpm_limit L present, a rate r > L gives valid = false and an rpm
\* entry of severity 'error' with limit = L, current = r and percentage =
\* r / L x 100; a rate r <= L gives no rpm entry of severity 'error', so
\* raising the rate of a valid result past L makes it invalid.
C9_RpmOverLimit ==
  (Validated /\ Truthy(model.rpm_limit)) =>
    /\ FGt(rpm, model.rpm_limit) =>
         /\ ~validation.valid
         /\ Cardinality(Entries("rpm", "error")) = 1
         /\ \A i \in Entries("rpm", "error") :
              /\ validation.warnings[i].limit = model.rpm_limit
              /\ validation.warnings[i].current = rpm
              /\ validation.warnings[i].percentage =
                   FMul(FDiv(rpm, model.rpm_limit), FromInt(100))
    /\ FLe(rpm, model.rpm_limit) =>
         /\ Entries("rpm", "error") = {}
         /\ validation.valid =>
              \A r \in QuotaRates :
                FGt(r, model.rpm_limit) =>
                  ~validateQuotas(model, inputTokens, outputTokens, r).valid

C9_Witness ==
  /\ Validated
  /\ model.rpm_limit = FromInt(5)
  /\ rpm = FromInt(6)
  /\ ~validation.valid
  /\ Len(validation.warnings) = 1
  /\ validation.warnings[1].severity = "error"
  /\ validation.warnings[1].percentage = FromInt(120)

\* C10: with a limit L present and usage u (the rate for rpm, (inputTokens
\* + outputTokens) x rate for tpm): u <= 0.8 x L gives no entry of that
\* type, exactly 80% included; 0.8 x L < u <= L gives exactly one entry of
\* that type, of severity 'warning'; u > L gives exactly one entry of
\* severity 'error' and no 'warning' entry of that type.
\* The 80% threshold is compared exactly, as 5 x u against 4 x L.
C10_Graded(type, u, L) ==
  Truthy(L) =>
    /\ FLe(FMul(FromInt(5), u), FMul(FromInt(4), L)) =>
         /\ Entries(type, "warning") = {}
         /\ Entries(type, "error") = {}
    /\ (FGt(FMul(FromInt(5), u), FMul(FromInt(4), L)) /\ FLe(u, L)) =>
         /\ Cardinality(Entries(type, "warning")) = 1
         /\ Entries(type, "error") = {}
    /\ FGt(u, L) =>
         /\ Cardinality(Entries(type, "error")) = 1
         /\ Entries(type, "warning") = {}

C10_NearLimitGrading ==
  Validated =>
    /\ C10_Graded("rpm", rpm, model.rpm_limit)
    /\ C10_Graded("tpm", FMul(FAdd(inputTokens, outputTokens), rpm),
                  model.tpm_limit)

C10_Witness ==
  /\ Validated
  /\ model.rpm_limit = FromInt(5)
  /\ model.tpm_limit = FromInt(10)
  /\ rpm = FromInt(4)
  /\ inputTokens = FromInt(1)
  /\ outputTokens = FromInt(1)
  /\ Entries("rpm", "warning") = {}
  /\ Entries("rpm", "error") = {}
  /\ Entries("tpm", "warning") = {}
  /\ validation.valid

(***************************************************************************)
(* Properties of the capacity estimate, checked under SpecQuota.           *)
(***************************************************************************)
Estimated == pc = "capacity"

TokensPerRequest == FAdd(inputTokens, outputTokens)

\* a limit the model does not carry: null, undefined, or the NaN an empty
\* catalog cell parses to
Absent(limit) == limit.k \in {"null", "undef", "nan"}

\* the positions of the returned warnings of a type
EntriesOf(type) ==
  {i \in 1..Len(validation.warnings) : validation.warnings[i].type = type}

\* the capacity is the least of the bounds a, b, c
LeastOf(a, b, c) ==
  /\ maxCapacity.maxRequestsPerMinute \in {a, b, c}
  /\ FLe(maxCapacity.maxRequestsPerMinute, a)
  /\ FLe(maxCapacity.maxRequestsPerMinute, b)
  /\ FLe(maxCapacity.maxRequestsPerMinute, c)

\* C11: for a model whose rpm_limit, tpm_limit or context_window is absent
\* or null, validateQuotas returns no entry of that type and the capacity
\* is the least of the other bounds, the missing one being unbounded.
\* The source does not skip a missing context_window.
C11_MissingLimitSkipped ==
  Estimated =>
    /\ Absent(model.rpm_limit) =>
         /\ EntriesOf("rpm") = {}
         /\ maxCapacity.maxByRPM = Infinity
    /\ Absent(model.tpm_limit) =>
         /\ EntriesOf("tpm") = {}
         /\ maxCapacity.maxByTPM = Infinity
    /\ Absent(model.context_window) =>
         /\ EntriesOf("context") = {}
         /\ LeastOf(maxCapacity.maxByRPM, maxCapacity.maxByTPM, Infinity)

\* the bound the context window puts on the capacity
ContextBound ==
  IF FLe(TokensPerRequest, model.context_window) THEN Infinity ELSE Zero

\* q = floor(n / t) for whole n and t > 0: q is whole and q t <= n < (q + 1) t
IsFloorOfQuotient(q, n, t) ==
  /\ IsNum(q)
  /\ q.e >= 0
  /\ FLe(FMul(q, t), n)
  /\ FGt(FMul(FAdd(q, FromInt(1)), t), n)

\* C12: maxRequestsPerMinute is the least of maxByRPM, maxByTPM and
\* maxByContext, where maxByRPM is rpm_limit if present and unbounded
\* otherwise, maxByTPM is floor(tpm_limit / tokensPerRequest) if tpm_limit is
\* present and unbounded otherwise, and maxByContext is unbounded if
\* tokensPerRequest <= context_window and 0 otherwise; with tokensPerRequest
\* = 0 the TPM bound is unbounded.  A limit is present when it is truthy.
C12_MaxCapacity ==
  Estimated =>
    /\ maxCapacity.tokensPerRequest = TokensPerRequest
    /\ maxCapacity.maxByRPM =
         (IF Truthy(model.rpm_limit) THEN model.rpm_limit ELSE Infinity)
    /\ ~Truthy(model.tpm_limit) => maxCapacity.maxByTPM = Infinity
    /\ (Truthy(model.tpm_limit) /\ IsZero(TokensPerRequest)) =>
         maxCapacity.maxByTPM = Infinity
    /\ (Truthy(model.tpm_limit) /\ ~IsZero(TokensPerRequest)) =>
         IsFloorOfQuotient(maxCapacity.maxByTPM, model.tpm_limit,
                           TokensPerRequest)
    /\ LeastOf(maxCapacity.maxByRPM, maxCapacity.maxByTPM, ContextBound)

C12_Witness ==
  /\ Estimated
  /\ model.rpm_limit = FromInt(5)
  /\ model.tpm_limit = FromInt(10)
  /\ model.context_window = FromInt(128000)
  /\ TokensPerRequest = FromInt(3)
  /\ maxCapacity.maxByTPM = FromInt(3)
  /\ maxCapacity.maxRequestsPerMinute = FromInt(3)

\* C13 as stated: with inputTokens + outputTokens > context_window the
\* capacity is 0 and limitedBy is 'context', whatever the limits are.
C13_ZeroCapacityIsContext ==
  (Estimated /\ FGt(TokensPerRequest, model.context_window)) =>
    /\ maxCapacity.maxRequestsPerMinute = Zero
    /\ maxCapacity.limitedBy = "context"

\* C13, amended: with inputTokens + outputTokens > context_window the
\* capacity is 0; limitedBy is 'context' unless the TPM bound
\* floor(tpm_limit / tokensPerRequest) is 0 as well, and then it is 'tpm'.
C13_ZeroCapacity ==
  (Estimated /\ FGt(TokensPerRequest, model.context_window)) =>
    /\ maxCapacity.maxRequestsPerMinute = Zero
    /\ maxCapacity.limitedBy =
         (IF maxCapacity.maxByTPM = Zero THEN "tpm" ELSE "context")

C13_Witness ==
  /\ Estimated
  /\ model.rpm_limit = FromInt(5)
  /\ model.tpm_limit = FromInt(10)
  /\ model.context_window = FromInt(3)
  /\ TokensPerRequest = FromInt(4)
  /\ maxCapacity.maxRequestsPerMinute = Zero
  /\ maxCapacity.limitedBy = "context"

\* C14: limitedBy is the first of rpm, tpm, context whose bound equals
\* maxRequestsPerMinute, so equal RPM and TPM bounds give 'rpm'; it is
\* 'none' only when no bound equals the minimum.
C14_LimitedByFirstMatch ==
  Estimated =>
    maxCapacity.limitedBy =
      (IF maxCapacity.maxRequestsPerMinute = maxCapacity.maxByRPM THEN "rpm"
       ELSE IF maxCapacity.maxRequestsPerMinute = maxCapacity.maxByTPM
            THEN "tpm"
       ELSE IF maxCapacity.maxRequestsPerMinute = ContextBound
            THEN "context"
       ELSE "none")

C14_Witness ==
  /\ Estimated
  /\ model.rpm_limit = FromInt(5)
  /\ model.tpm_limit = FromInt(10)
  /\ model.context_window = FromInt(128000)
  /\ TokensPerRequest = FromInt(2)
  /\ maxCapacity.maxByRPM = FromInt(5)
  /\ maxCapacity.maxByTPM = FromInt(5)
  /\ maxCapacity.limitedBy = "rpm"

(***************************************************************************)
(* Properties of the comparison, checked under SpecCompare.                *)
(***************************************************************************)
\* the state after a call of compareModels returned
Compared == pc \in {"compared", "comparedAgain"}

CostOf(result) == result.totalCost.totalCost

\* the elements of an array whose total cost is c, in the order of the array
AtCost(array, c) ==
  LET Same(result) == CostOf(result) = c
  IN  SelectSeq(array, Same)

\* C15: compareModels returns its results in ascending order of
\* totalCost.totalCost (each adjacent pair is in <= order), and entries of
\* equal total cost keep the relative order they have in the input list.
C15_SortedStable ==
  Compared =>
    /\ \A i \in 1..(Len(results) - 1) :
         FLe(CostOf(results[i]), CostOf(results[i + 1]))
    /\ \A i \in 1..Len(mapped) :
         AtCost(results, CostOf(mapped[i])) = AtCost(mapped, CostOf(mapped[i]))

C15_Witness ==
  /\ pc = "compared"
  /\ comparisons = <<DayEntry(BasePAYG, "true"), DayEntry(MiniPAYG, "false")>>
  /\ results[1].model = MiniPAYG
  /\ results[2].model = BasePAYG
  /\ FGt(CostOf(results[2]), CostOf(results[1]))

\* the number of elements of an array that carry a model and a flag
CountOf(array, Holds(_)) ==
  Cardinality({i \in 1..Len(array) : Holds(array[i])})

\* C16: compareModels returns one result per entry of the input, the same
\* models as many times each: an entry with enabled = false is kept, with
\* enabled = false, every other entry has enabled = true, and an empty list
\* gives an empty list.
C16_OneResultPerEntry ==
  Compared =>
    /\ Len(results) = Len(comparisons)
    /\ \A m \in CostModels, en \in BOOLEAN :
         LET IsResult(r) == r.model = m /\ r.enabled = en
             IsEntry(c)  == c.model = m /\ (c.enabled # "false") = en
         IN  CountOf(results, IsResult) = CountOf(comparisons, IsEntry)
    /\ (comparisons = <<>> => results = <<>>)

C16_Witness ==
  /\ pc = "compared"
  /\ comparisons = <<DayEntry(BasePTU, "undefined"),
                     DayEntry(MiniPAYG, "false")>>
  /\ Len(results) = 2
  /\ results[1].model = MiniPAYG
  /\ results[1].enabled = FALSE
  /\ results[2].model = BasePTU
  /\ results[2].enabled = TRUE

Converted == pc = "converted"

\* the whole number n is the ceiling of p / q: the least n with n * q >= p
IsCeilingOf(n, p, q) == n * q >= p /\ (n - 1) * q < p

\* C17: toTokens never under-counts: for a whole amount v >= 0,
\* toTokens(v, 'chars') is the ceiling of v / 4 (so 4 x result >= v),
\* toTokens(v, 'words') is the ceiling of 1.3 x v (so result >= 1.3 x v),
\* toTokens(v, 'tokens') is v, and any other unit returns the value.
C17_NeverUnderCounts ==
  Converted =>
    \A v \in 0..MaxValue : value = FromInt(v) =>
      CASE unit = "chars" ->
             \E n \in 0..v : tokens = FromInt(n) /\ IsCeilingOf(n, v, 4)
        [] unit = "words" ->
             \E n \in 0..(2 * v) :
               tokens = FromInt(n) /\ IsCeilingOf(n, 13 * v, 10)
        [] OTHER -> tokens = value

C17_Witness ==
  /\ Converted
  /\ unit = "words"
  /\ value = FromInt(10)
  /\ tokens = FromInt(13)

(***************************************************************************)
(* Properties of the projections, checked under SpecProjections.           *)
(***************************************************************************)
ProjectionsMade == pc = "projected"

\* the projection of a timeframe covers that many minutes of traffic
CoversMinutes(timeframe, minutes) ==
  /\ projections[timeframe].totalRequests = FMul(rpm, FromInt(minutes))
  /\ projections[timeframe].totalCost =
       FMul(requestCost.totalCost, FMul(rpm, FromInt(minutes)))

\* C19: generateProjections returns the projections of a minute, an hour, a
\* day and a month of traffic: 'minute' has totalRequests = rpm x 1 and
\* totalCost = requestCost.totalCost x rpm, 'hour' covers 60 minutes, 'day'
\* 1440 and 'month' 43200.
C19_Projections ==
  ProjectionsMade =>
    /\ CoversMinutes("minute", 1)
    /\ CoversMinutes("hour", 60)
    /\ CoversMinutes("day", 1440)
    /\ CoversMinutes("month", 43200)

\* what the call returns: the 'minute' projection is that of a day
C19_MinuteIsADay ==
  ProjectionsMade =>
    /\ CoversMinutes("minute", 1440)
    /\ projections["minute"].period = "minute"
    /\ CoversMinutes("hour", 60)
    /\ CoversMinutes("day", 1440)
    /\ CoversMinutes("month", 43200)

C19_Witness ==
  /\ ProjectionsMade
  /\ model = MiniPAYG
  /\ inputTokens = FromInt(2)
  /\ outputTokens = FromInt(1)
  /\ rpm = FromInt(1)
  /\ projections["minute"].totalRequests = FromInt(1440)
  /\ projections["hour"].totalRequests = FromInt(60)

(***************************************************************************)
(* The fixed-total horizon, checked under SpecCost: the two projections of *)
(* a run are of the same request cost and options at rates rpm and         *)
(* rpm x scale.                                                            *)
(***************************************************************************)
ProjectedTwice == pc = "done"

\* C20: in fixed-total mode totalRequests is the supplied
\* options.totalRequests (10000 when absent), whatever the rate, and for a
\* PAYG model totalCost = requestCost.totalCost x options.totalRequests is
\* the same at every rate: the two projections differ in rpm and
\* runtimeMinutes only.
C20_FixedTotalIgnoresRate ==
  (ProjectedTwice /\ ~DurationMode) =>
    /\ totalCost.totalRequests = GivenTotal
    /\ scaledCost.totalRequests = GivenTotal
    /\ (model.pricing_type # "PTU" =>
          /\ totalCost.totalCost = FMul(requestCost.totalCost, GivenTotal)
          /\ scaledCost.totalCost = totalCost.totalCost
          /\ [scaledCost EXCEPT !.rpm = totalCost.rpm,
                                !.runtimeMinutes = totalCost.runtimeMinutes]
               = totalCost)

C20_Witness ==
  /\ ProjectedTwice
  /\ model = MiniPAYG
  /\ inputTokens = FromInt(2)
  /\ outputTokens = FromInt(1)
  /\ options = Options("total", "undefined", FromInt(7), Undefined)
  /\ rpm = FromInt(1)
  /\ scale = FromInt(3)
  /\ totalCost.totalRequests = FromInt(7)
  /\ scaledCost.totalRequests = FromInt(7)
  /\ totalCost.runtimeMinutes = FromInt(7)
  /\ scaledCost.runtimeMinutes = FDiv(FromInt(7), FromInt(3))
  /\ scaledCost.totalCost = totalCost.totalCost

(***************************************************************************)
(* Further properties of the projection, checked under SpecCost.           *)
(***************************************************************************)
\* C21: for a PTU projection costPerRequest = totalCost / totalRequests
\* when totalRequests > 0 and 0 when totalRequests is 0 (a rate of 0 in
\* duration mode), always a number, and totalInputCost = totalOutputCost
\* = 0.
C21_PTUCostPerRequest ==
  (Projected /\ totalCost.isPTU) =>
    /\ IsNum(totalCost.costPerRequest)
    /\ (FGt(totalCost.totalRequests, Zero) =>
          totalCost.costPerRequest =
            FDiv(totalCost.totalCost, totalCost.totalRequests))
    /\ (totalCost.totalRequests = Zero => totalCost.costPerRequest = Zero)
    /\ totalCost.totalInputCost = Zero
    /\ totalCost.totalOutputCost = Zero

C21_Witness ==
  /\ Projected
  /\ model = BasePTU
  /\ rpm = Zero
  /\ options = Options("duration", "day", Undefined, Undefined)
  /\ totalCost.isPTU
  /\ totalCost.totalRequests = Zero
  /\ totalCost.totalCost = FromInt(100)
  /\ totalCost.costPerRequest = Zero

(***************************************************************************)
(* Further properties of the quota validation, checked under SpecQuota.    *)
(***************************************************************************)
\* C22: validateQuotas returns a context entry exactly when inputTokens +
\* outputTokens > context_window, of severity 'error'; it never returns a
\* context entry of severity 'warning', also not for a request that uses
\* between 80% and 100% of the context window.
C22_ContextErrorOnly ==
  Validated =>
    /\ Entries("context", "warning") = {}
    /\ Cardinality(Entries("context", "error")) <= 1
    /\ (IsNum(model.context_window) =>
          (Entries("context", "error") # {}
             <=> FGt(TokensPerRequest, model.context_window)))

C22_Witness ==
  /\ Validated
  /\ model.context_window = FromInt(3)
  /\ inputTokens = FromInt(2)
  /\ outputTokens = FromInt(1)
  /\ EntriesOf("context") = {}

\* C23: a limit of 0 is a limit: with rpm_limit = 0 and a positive rate
\* validateQuotas reports an rpm error and valid = false, and with
\* tpm_limit = 0, a positive rate and positive token counts it reports a
\* tpm error and valid = false.
C23_ZeroLimitIsALimit ==
  Validated =>
    /\ (model.rpm_limit = Zero /\ FGt(rpm, Zero)) =>
         (Entries("rpm", "error") # {} /\ ~validation.valid)
    /\ (model.tpm_limit = Zero /\ FGt(rpm, Zero)
           /\ FGt(TokensPerRequest, Zero)) =>
         (Entries("tpm", "error") # {} /\ ~validation.valid)

\* what the call returns for limits of 0: no entry, and limits of null
C23_Witness ==
  /\ Validated
  /\ model.rpm_limit = Zero
  /\ model.tpm_limit = Zero
  /\ model.context_window = FromInt(128000)
  /\ rpm = FromInt(5)
  /\ inputTokens = FromInt(2)
  /\ outputTokens = FromInt(1)
  /\ validation.warnings = <<>>
  /\ validation.valid
  /\ validation.limits = [tpm |-> Null, rpm |-> Null]

(***************************************************************************)
(* Properties of the application state, checked under SpecApp.             *)
(***************************************************************************)
\* no two elements of the array have the same (provider, model)
UniqueKeys(array) ==
  \A i, j \in 1..Len(array) :
    HasKey(array[i], array[j].provider, array[j].model) => i = j

\* C24: after any sequence of addCustomModel, updateCustomModel,
\* deleteCustomModel and reloadModels from a catalog with unique keys, no
\* two records of App.models have the same (provider, model).
C24_ModelKeysUnique == UniqueKeys(models)

C24_Witness ==
  /\ customModels = <<AppModel("OpenAI", "GPT-5", TRUE)>>
  /\ models = Catalog \o customModels
  /\ ~UniqueKeys(models)

\* C29: after any sequence of selections, deselections, resets and custom
\* model additions, updates and deletions, every selected model has a key
\* that a record of App.models has.
C29_SelectionInModels ==
  \A i \in 1..Len(selectedModels) :
    FindIndex(models, selectedModels[i].provider, selectedModels[i].model) # 0

C29_Witness ==
  /\ customModels = <<AppModel("OpenAI", "GPT-5", TRUE)>>
  /\ models = Catalog \o customModels
  /\ \E i \in 1..Len(selectedModels) :
       selectedModels[i] = AppModel("Acme", "m1", TRUE)

\* C30: App.selectedModels never holds two entries with the same
\* (provider, model): selecting a selected model changes nothing, and a
\* removal leaves no entry with the removed key.
C30_SelectionKeysUnique == UniqueKeys(selectedModels)

C30_Witness ==
  /\ Len(selectedModels) = 3
  /\ selectedModels[1] = AppModel("Anthropic", "Claude", FALSE)
  /\ selectedModels[2] = AppModel("OpenAI", "GPT-5", FALSE)
  /\ selectedModels[3] = AppModel("Acme", "m1", TRUE)

(***************************************************************************)
(* The validation against the capacity, checked under SpecQuota.           *)
(***************************************************************************)
\* the rate is a whole number of at least 1
WholeRate == \E r \in 1..MaxRate : rpm = FromInt(r)

\* C25: for a model with a numeric context_window, whole token counts and
\* a whole rate r >= 1, validateQuotas(..., r).valid is true exactly when
\* r <= calculateMaxCapacity(...).maxRequestsPerMinute.
C25_ValidIffWithinCapacity ==
  (Estimated /\ IsNum(model.context_window) /\ WholeRate) =>
    (validation.valid <=> FLe(rpm, maxCapacity.maxRequestsPerMinute))

C25_Witness ==
  /\ Estimated
  /\ model.context_window = FromInt(128000)
  /\ model.rpm_limit = FromInt(5)
  /\ model.tpm_limit = FromInt(10)
  /\ inputTokens = FromInt(2)
  /\ outputTokens = FromInt(1)
  /\ rpm = FromInt(4)
  /\ maxCapacity.maxRequestsPerMinute = FromInt(3)
  /\ maxCapacity.limitedBy = "tpm"
  /\ ~validation.valid

(***************************************************************************)
(* The defaults of an entry, checked under SpecCompare on the array the    *)
(* callback built: mapped[i] is the evaluation of comparisons[i].          *)
(***************************************************************************)
\* the value of a numeric field of an entry, d when it is missing or 0
FieldOr(field, d) ==
  IF field.k = "num" /\ ~IsZero(field) THEN field ELSE d

\* the rate of an entry: rpm, else requestsPerMinute, else 100
RateOf(comp) == FieldOr(comp.rpm, FieldOr(comp.requestsPerMinute, FromInt(100)))

\* the minutes of the duration of an entry, with the defaults
MinutesOf(comp) ==
  CASE comp.duration = "hour"  -> FromInt(60)
    [] comp.duration = "month" ->
         FMul(FromInt(1440), FieldOr(comp.daysPerMonth, FromInt(30)))
    [] OTHER                   -> FromInt(1440)

\* C26: compareModels evaluates an entry with rpm (or requestsPerMinute)
\* missing or 0 at rate 100, with totalRequests missing or 0 at 10000,
\* daysPerMonth missing or 0 at 30, duration missing at 'day' and calcMode
\* missing at 'duration'; the projection and the validation of an entry
\* use the same rate, which is never 0.
C26_EntryDefaults ==
  Compared =>
    \A i \in 1..Len(comparisons) :
      /\ mapped[i].totalCost.rpm = RateOf(comparisons[i])
      /\ mapped[i].validation.usage.requestsPerMinute
           = mapped[i].totalCost.rpm
      /\ FGt(mapped[i].totalCost.rpm, Zero)
      /\ mapped[i].totalCost.mode =
           (IF comparisons[i].calcMode = "undefined" THEN "duration"
            ELSE comparisons[i].calcMode)
      /\ (mapped[i].totalCost.mode = "total" =>
            mapped[i].totalCost.totalRequests =
              FieldOr(comparisons[i].totalRequests, FromInt(10000)))
      /\ (mapped[i].totalCost.mode = "duration" =>
            /\ mapped[i].totalCost.duration =
                 (IF comparisons[i].duration = "undefined" THEN "day"
                  ELSE comparisons[i].duration)
            /\ mapped[i].totalCost.totalRequests =
                 FMul(RateOf(comparisons[i]), MinutesOf(comparisons[i])))

C26_Witness ==
  /\ pc = "compared"
  /\ Len(comparisons) = 2
  /\ comparisons[1].rpm = Zero
  /\ comparisons[1].requestsPerMinute = Undefined
  /\ comparisons[1].daysPerMonth = Zero
  /\ comparisons[1].duration = "month"
  /\ mapped[1].totalCost.rpm = FromInt(100)
  /\ mapped[1].totalCost.totalRequests = FromInt(4320000)
  /\ comparisons[2].totalRequests = Zero
  /\ comparisons[2].calcMode = "total"
  /\ mapped[2].totalCost.rpm = FromInt(3)
  /\ mapped[2].totalCost.totalRequests = FromInt(10000)

(***************************************************************************)
(* Durations the switch does not name, and the pricing type of a           *)
(* projection, checked under SpecCost.                                     *)
(***************************************************************************)
UnknownDuration ==
  DurationMode /\ options.duration \notin {"undefined", "hour", "day", "month"}

\* C27: in duration mode with a duration other than 'hour', 'day' and
\* 'month' the projection is that of a day: totalRequests = rpm x 1440
\* and, for a PTU model, totalCost = ptu_price_monthly / daysPerMonth.
C27_UnknownDurationIsDay ==
  (Projected /\ UnknownDuration) =>
    /\ totalCost.totalRequests = FMul(rpm, FromInt(1440))
    /\ (totalCost.isPTU =>
          totalCost.totalCost = FDiv(model.ptu_price_monthly, DaysPerMonth))

\* what the call returns: the requests of a day at the fee of a month
C27_Witness ==
  /\ Projected
  /\ model = BasePTU
  /\ options = Options("duration", "week", Undefined, Undefined)
  /\ rpm = FromInt(1)
  /\ totalCost.totalRequests = FromInt(1440)
  /\ totalCost.isPTU
  /\ totalCost.totalCost = FromInt(3000)

\* C28: the projection has the pricing type of the request cost: isPTU of
\* the result equals requestCost.isPTU, and a PTU request cost gives the
\* prorated monthly fee as totalCost.
C28_PricingTypeKept ==
  Projected =>
    /\ totalCost.isPTU = requestCost.isPTU
    /\ (requestCost.isPTU =>
          totalCost.totalCost =
            ProratePTU(Or(ParseFloat(model.ptu_price_monthly), Zero),
                       IF DurationMode THEN "duration" ELSE "total",
                       IF options.duration = "undefined" THEN "day"
                       ELSE options.duration,
                       C6_Runtime, DaysPerMonth))

\* what the call returns for a PTU model without a monthly price
C28_Witness ==
  /\ Projected
  /\ model = UnpricedPTU
  /\ options = Options("duration", "day", Undefined, Undefined)
  /\ rpm = FromInt(1)
  /\ requestCost.isPTU
  /\ ~totalCost.isPTU
  /\ totalCost.totalCost = Zero

====
